---- MODULE Spec2Model ----
(***************************************************************************)
(* Model of bcbio/structural/validate.py: validation of structural variant *)
(* calls against truth sets.                                               *)
(*                                                                         *)
(* A Python str is a sequence of one-character strings, so that            *)
(* startswith, endswith, split, replace, int() and the % formatting are    *)
(* computed character by character as Python computes them.  A BED file is *)
(* the set of its features [chrom, start, end, name]; a raised exception   *)
(* is a result record whose exc field names it.                            *)
(***************************************************************************)
EXTENDS Integers, Sequences, FiniteSets, TLC

VARIABLES
    call,           \* the function entered and its arguments
    pc,             \* position of the call: "call", "loop", "return", "raise"
    ret,            \* the value returned (or the exception raised)
    total_callers,  \* _evaluate_multi: callers_by_event(ensemble), <<event, caller>> pairs
    svi, szi, ci,   \* _evaluate_multi: positions of the three nested loops
    out_rows,       \* _evaluate_multi: rows written to out_file
    df_rows         \* _evaluate_multi: rows written to df_file

vars == <<call, pc, ret, total_callers, svi, szi, ci, out_rows, df_rows>>

(***************************************************************************)
(* Bounds of the model.                                                    *)
(***************************************************************************)
MaxTags   == 2   \* sub-tags in the name of a feature given to is_caller_svtype
MaxCopy   == 10  \* largest copy number of a generated cnv tag
MaxPloidy == 3   \* largest ploidy
MaxCount  == 5   \* largest x and n given to _stat_str
MaxFeats  == 2   \* features of a BED file

(***************************************************************************)
(* Python strings.                                                         *)
(***************************************************************************)
Digits == <<"0", "1", "2", "3", "4", "5", "6", "7", "8", "9">>

IsDigit(c) == \E d \in 1..10 : Digits[d] = c

DigitVal(c) == (CHOOSE d \in 1..10 : Digits[d] = c) - 1

startswith(s, p) == Len(p) <= Len(s) /\ SubSeq(s, 1, Len(p)) = p

endswith(s, p) == Len(p) <= Len(s) /\ SubSeq(s, Len(s) - Len(p) + 1, Len(s)) = p

\* s.split(sep), sep one character
RECURSIVE split(_, _)
split(s, sep) ==
    IF \A i \in 1..Len(s) : s[i] # sep
    THEN <<s>>
    ELSE LET i == CHOOSE k \in 1..Len(s) : s[k] = sep /\ \A j \in 1..(k - 1) : s[j] # sep
         IN  <<SubSeq(s, 1, i - 1)>> \o split(SubSeq(s, i + 1, Len(s)), sep)

\* s.split(sep, 1)
split1(s, sep) ==
    IF \A i \in 1..Len(s) : s[i] # sep
    THEN <<s>>
    ELSE LET i == CHOOSE k \in 1..Len(s) : s[k] = sep /\ \A j \in 1..(k - 1) : s[j] # sep
         IN  <<SubSeq(s, 1, i - 1), SubSeq(s, i + 1, Len(s))>>

\* s.replace(old, ""), old not empty
RECURSIVE replace_empty(_, _)
replace_empty(s, old) ==
    IF Len(s) = 0 THEN <<>>
    ELSE IF startswith(s, old) THEN replace_empty(SubSeq(s, Len(old) + 1, Len(s)), old)
    ELSE <<s[1]>> \o replace_empty(Tail(s), old)

\* whether int(s) returns: an optional sign, then one digit or more
int_parses(s) ==
    LET body == IF Len(s) > 0 /\ s[1] \in {"+", "-"} THEN Tail(s) ELSE s
    IN  Len(body) > 0 /\ \A i \in 1..Len(body) : IsDigit(body[i])

RECURSIVE digits_value(_)
digits_value(s) ==
    IF Len(s) = 0 THEN 0
    ELSE 10 * digits_value(SubSeq(s, 1, Len(s) - 1)) + DigitVal(s[Len(s)])

\* int(s), where int_parses(s)
py_int(s) ==
    IF s[1] = "-" THEN 0 - digits_value(Tail(s))
    ELSE IF s[1] = "+" THEN digits_value(Tail(s))
    ELSE digits_value(s)

\* "%s" % n, n an int
RECURSIVE nat_str(_)
nat_str(n) == IF n < 10 THEN <<Digits[n + 1]>> ELSE nat_str(n \div 10) \o <<Digits[(n % 10) + 1]>>

py_str(n) == IF n < 0 THEN <<"-">> \o nat_str(0 - n) ELSE nat_str(n)

Max(S) == CHOOSE m \in S : \A x \in S : x <= m

Min(S) == CHOOSE m \in S : \A x \in S : m <= x

(***************************************************************************)
(* The strings of the source, and the tags and caller names of the inputs. *)
(***************************************************************************)
cnv == <<"c", "n", "v">>
DEL == <<"D", "E", "L">>
DUP == <<"D", "U", "P">>
INV == <<"I", "N", "V">>
UKN == <<"U", "K", "N">>
BND == <<"B", "N", "D">>
wham == <<"w", "h", "a", "m">>
sv_ensemble == <<"s", "v", "-", "e", "n", "s", "e", "m", "b", "l", "e">>
lumpy == <<"l", "u", "m", "p", "y">>
delly == <<"d", "e", "l", "l", "y">>
cnvkit == <<"c", "n", "v", "k", "i", "t">>
cn_mops == <<"c", "n", "_", "m", "o", "p", "s">>
mops == <<"m", "o", "p", "s">>

EVENT_SIZES == <<[minf |-> 1, maxf |-> 450], [minf |-> 450, maxf |-> 2000],
                 [minf |-> 2000, maxf |-> 4000], [minf |-> 4000, maxf |-> 20000],
                 [minf |-> 20000, maxf |-> 60000], [minf |-> 60000, maxf |-> 1000000]>>

(***************************************************************************)
(* Results of a call: a value returned, or an exception raised.            *)
(***************************************************************************)
ReturnStr(v) == [exc |-> "", val |-> v]
RaiseStr(e) == [exc |-> e, val |-> <<>>]
ReturnBool(b) == [exc |-> "", val |-> b]
RaiseBool(e) == [exc |-> e, val |-> FALSE]

(***************************************************************************)
(* _stat_str                                                               *)
(***************************************************************************)
\* "%.1f" % (float(x) / float(n) * 100.0): the tenths nearest to 1000 x / n.
\* No tie is possible while n < 16 (a tie needs 16 | n), so the rounding
\* mode of the C library does not show.
format_1f(x, n) ==
    LET tenths == (2000 * x + n) \div (2 * n)
    IN  nat_str(tenths \div 10) \o <<".">> \o nat_str(tenths % 10)

_stat_str_zero_label(x, n) ==
    IF n > 0
    THEN [label |-> format_1f(x, n) \o <<"%", " ", "(">> \o py_str(x) \o <<" ", "/", " ">>
                    \o py_str(n) \o <<")">>,
          val |-> [num |-> 100 * x, den |-> n]]
    ELSE [label |-> <<"0", ".", "0", "%">>, val |-> [num |-> 0, den |-> 1]]

\* val is the exact quotient 100 x / n, kept as a fraction num / den
_stat_str(x, n) ==
    IF n > 0
    THEN [label |-> format_1f(x, n) \o <<"%", " ", "(">> \o py_str(x) \o <<" ", "/", " ">>
                    \o py_str(n) \o <<")">>,
          val |-> [num |-> 100 * x, den |-> n]]
    ELSE [label |-> <<>>, val |-> [num |-> 0, den |-> 1]]

(***************************************************************************)
(* cnv_to_event                                                            *)
(***************************************************************************)
cnv_to_event_min(name, ploidy) ==
    IF startswith(name, cnv)
    THEN LET parts == split(replace_empty(split(name, "_")[1], cnv), ";")
         IN  IF \E i \in 1..Len(parts) : ~int_parses(parts[i])
             THEN RaiseStr("ValueError")
             ELSE LET num == Min({py_int(parts[i]) : i \in 1..Len(parts)})
                  IN  IF num < ploidy THEN ReturnStr(DEL)
                      ELSE IF num > ploidy THEN ReturnStr(DUP)
                      ELSE ReturnStr(name)
    ELSE ReturnStr(name)

cnv_to_event(name, ploidy) ==
    IF startswith(name, cnv)
    THEN LET parts == split(replace_empty(split(name, "_")[1], cnv), ";")
         IN  IF \E i \in 1..Len(parts) : ~int_parses(parts[i])
             THEN RaiseStr("ValueError")
             ELSE LET num == Max({py_int(parts[i]) : i \in 1..Len(parts)})
                  IN  IF num < ploidy THEN ReturnStr(DEL)
                      ELSE IF num > ploidy THEN ReturnStr(DUP)
                      ELSE ReturnStr(name)
    ELSE ReturnStr(name)

(***************************************************************************)
(* callers_by_event                                                        *)
(***************************************************************************)
\* The <<event, caller>> pairs added to total_callers by one line of in_bed,
\* or ValueError: a sub-tag without "_" does not unpack into (event, caller).
line_callers(feat, ploidy) ==
    LET strs == split(feat.name, ",")
        pair(i) == split1(strs[i], "_")
    IN  IF \E i \in 1..Len(strs) :
               Len(pair(i)) # 2 \/ cnv_to_event(pair(i)[1], ploidy).exc # ""
        THEN [exc |-> "ValueError", val |-> {}]
        ELSE [exc |-> "",
              val |-> {<<cnv_to_event(pair(i)[1], ploidy).val, pair(i)[2]>> : i \in 1..Len(strs)}]

callers_by_event(in_bed, ploidy) ==
    IF \E feat \in in_bed : line_callers(feat, ploidy).exc # ""
    THEN [exc |-> "ValueError", val |-> {}]
    ELSE [exc |-> "", val |-> UNION {line_callers(feat, ploidy).val : feat \in in_bed}]

\* total_callers[svtype] of the defaultdict(set)
callers_of(total, svtype) == {p[2] : p \in {q \in total : q[1] = svtype}}

(***************************************************************************)
(* _evaluate_one: the nested predicates                                    *)
(***************************************************************************)
cnv_matches(name, svtype, ploidy) ==
    LET event == cnv_to_event(name, ploidy)
    IN  IF event.exc # "" THEN RaiseBool(event.exc) ELSE ReturnBool(event.val = svtype)

allowed(svtype) ==
    IF svtype = DEL THEN {DEL, UKN}
    ELSE IF svtype = DUP THEN {DUP}
    ELSE IF svtype = INV THEN {INV}
    ELSE {}

\* curtype, curcaller = name.split("_")[:2] raises ValueError on a name without "_"
wham_matches(name, svtype) ==
    LET parts == split(name, "_")
    IN  IF Len(parts) < 2 THEN RaiseBool("ValueError")
        ELSE ReturnBool(parts[2] = wham /\ svtype \in {DEL, DUP, INV}
                        /\ parts[1] \in allowed(svtype))

is_breakend(name) == startswith(name, BND)

in_size_range_le(feat, size_range) ==
    LET size == feat.end - feat.start
    IN  size >= size_range.minf /\ size <= size_range.maxf

in_size_range(feat, size_range) ==
    LET size == feat.end - feat.start
    IN  size >= size_range.minf /\ size < size_range.maxf

\* (name.startswith(svtype) or cnv_matches(name) or wham_matches(name) or is_breakend(name)),
\* evaluated left to right and stopping at the first true operand
name_is_svtype(name, svtype, ploidy) ==
    IF startswith(name, svtype) THEN ReturnBool(TRUE)
    ELSE LET c == cnv_matches(name, svtype, ploidy)
         IN  IF c.exc # "" THEN c
             ELSE IF c.val THEN ReturnBool(TRUE)
             ELSE LET w == wham_matches(name, svtype)
                  IN  IF w.exc # "" THEN w
                      ELSE IF w.val THEN ReturnBool(TRUE)
                      ELSE ReturnBool(is_breakend(name))

RECURSIVE names_match(_, _, _, _)
names_match(names, caller, svtype, ploidy) ==
    IF Len(names) = 0 THEN ReturnBool(FALSE)
    ELSE LET t == name_is_svtype(names[1], svtype, ploidy)
         IN  IF t.exc # "" THEN t
             ELSE IF t.val /\ (caller = sv_ensemble \/ endswith(names[1], caller))
             THEN ReturnBool(TRUE)
             ELSE names_match(Tail(names), caller, svtype, ploidy)

is_caller_svtype(feat, caller, svtype, ploidy) ==
    names_match(split(feat.name, ","), caller, svtype, ploidy)

(***************************************************************************)
(* pybedtools: sort().merge(), intersect(u=True), count()                  *)
(***************************************************************************)
bed3(f) == [chrom |-> f.chrom, start |-> f.start, end |-> f.end]

\* bedtools merge joins features that overlap or are book-ended
mergeable(a, b) == a.chrom = b.chrom /\ a.start <= b.end /\ b.start <= a.end

RECURSIVE merge(_)
merge(feats) ==
    IF \E a, b \in feats : a # b /\ mergeable(a, b)
    THEN LET p == CHOOSE q \in feats \X feats : q[1] # q[2] /\ mergeable(q[1], q[2])
             u == [chrom |-> p[1].chrom,
                   start |-> Min({p[1].start, p[2].start}),
                   end |-> Max({p[1].end, p[2].end})]
         IN  merge((feats \ {p[1], p[2]}) \cup {u})
    ELSE feats

overlap_bases(a, b) ==
    IF a.chrom = b.chrom THEN Min({a.end, b.end}) - Max({a.start, b.start}) ELSE 0

\* a.intersect(b, u=True): the features of a with at least 1 bp in some feature of b
intersect_u(a, b) == {e \in a : \E t \in b : overlap_bases(e, t) >= 1}

\* a.intersect(b, u=True, f=tenths/10)
intersect_u_f(a, b, tenths) ==
    {e \in a : \E t \in b : overlap_bases(e, t) >= 1
                            /\ 10 * overlap_bases(e, t) >= tenths * (e.end - e.start)}

(***************************************************************************)
(* _evaluate_one                                                           *)
(***************************************************************************)
\* overlap, in tenths
overlap10(size_range) ==
    IF size_range.minf < 600 THEN 2
    ELSE IF size_range.minf < 2500 THEN 5
    ELSE 8

efeats_of(caller, svtype, size_range, ensemble, ploidy) ==
    LET sized == {f \in ensemble : in_size_range(f, size_range)}
    IN  IF \E f \in sized : is_caller_svtype(f, caller, svtype, ploidy).exc # ""
        THEN [exc |-> "ValueError", val |-> {}]
        ELSE [exc |-> "",
              val |-> merge({bed3(f) : f \in
                         {g \in sized : is_caller_svtype(g, caller, svtype, ploidy).val}})]

tfeats_of(size_range, truth) ==
    merge({bed3(f) : f \in {g \in truth : in_size_range(g, size_range)}})

NoStat == [label |-> <<>>, val |-> [num |-> 0, den |-> 1]]

_evaluate_one_overlap(caller, svtype, size_range, ensemble, truth, ploidy) ==
    LET e == efeats_of(caller, svtype, size_range, ensemble, ploidy)
        tfeats == tfeats_of(size_range, truth)
        etotal == Cardinality(e.val)
        ttotal == Cardinality(tfeats)
        match == Cardinality(merge(intersect_u_f(e.val, tfeats, overlap10(size_range))))
    IN  IF e.exc # ""
        THEN [exc |-> e.exc, sensitivity |-> NoStat, precision |-> NoStat]
        ELSE [exc |-> "",
              sensitivity |-> _stat_str(match, ttotal),
              precision |-> _stat_str(match, etotal)]

_evaluate_one(caller, svtype, size_range, ensemble, truth, ploidy) ==
    LET e == efeats_of(caller, svtype, size_range, ensemble, ploidy)
        tfeats == tfeats_of(size_range, truth)
        etotal == Cardinality(e.val)
        ttotal == Cardinality(tfeats)
        match == Cardinality(merge(intersect_u(e.val, tfeats)))
    IN  IF e.exc # ""
        THEN [exc |-> e.exc, sensitivity |-> NoStat, precision |-> NoStat]
        ELSE [exc |-> "",
              sensitivity |-> _stat_str(match, ttotal),
              precision |-> _stat_str(match, etotal)]

(***************************************************************************)
(* Inputs of the calls.  A feature name is generated from its sub-tags     *)
(* (event, caller), written "<event>_<caller>" and joined by ","; a        *)
(* breakend sub-tag may also be the bare tag "BND".                        *)
(***************************************************************************)
RECURSIVE join(_, _)
join(strs, sep) ==
    IF Len(strs) = 0 THEN <<>>
    ELSE IF Len(strs) = 1 THEN strs[1]
    ELSE strs[1] \o <<sep>> \o join(Tail(strs), sep)

SeqsUpTo(S, n) == UNION {[1..k -> S] : k \in 1..n}

cnv_tag(copies) == cnv \o join([i \in 1..Len(copies) |-> py_str(copies[i])], ";")

subtag_str(st) == IF st.caller = <<>> THEN st.event ELSE st.event \o <<"_">> \o st.caller

name_of(tags) == join([i \in 1..Len(tags) |-> subtag_str(tags[i])], ",")

Feat(chrom, start, end, tags) ==
    [chrom |-> chrom, start |-> start, end |-> end, name |-> name_of(tags)]

Tag(event, caller) == [event |-> event, caller |-> caller]

SubTagPool ==
    {Tag(e, c) : e \in {DEL, DUP, UKN, BND, cnv_tag(<<1>>)}, c \in {lumpy, wham, cn_mops}}
        \cup {Tag(BND, <<>>)}

MatcherCalls ==
    {[fn |-> "is_caller_svtype", tags |-> ts, feat |-> Feat("chr1", 100, 200, ts),
      caller |-> c, svtype |-> t, ploidy |-> 2] :
        ts \in SeqsUpTo(SubTagPool, MaxTags),
        c \in {sv_ensemble, lumpy, wham, mops},
        t \in {DEL, DUP, INV}}

CnvCalls ==
    {[fn |-> "cnv_to_event", copies |-> cs, name |-> subtag_str(Tag(cnv_tag(cs), cnvkit)),
      ploidy |-> p] : cs \in SeqsUpTo(0..MaxCopy, 2), p \in 1..MaxPloidy}
    \cup
    {[fn |-> "cnv_to_event", copies |-> <<>>, name |-> n, ploidy |-> p] :
        n \in {subtag_str(Tag(DEL, lumpy)), subtag_str(Tag(UKN, wham)), BND, DUP,
               subtag_str(Tag(cnv, lumpy)), cnvkit},
        p \in 1..MaxPloidy}

StatCalls == {[fn |-> "_stat_str", x |-> x, n |-> n] : x \in 0..MaxCount, n \in 0..MaxCount}

\* lengths at and around the bounds of every bin of EVENT_SIZES
Lengths ==
    {0, 1000000, 1000001, 1500000}
        \cup UNION {{EVENT_SIZES[i].minf, EVENT_SIZES[i].minf + 1, EVENT_SIZES[i].maxf - 1} :
                      i \in 1..Len(EVENT_SIZES)}

SizeCalls ==
    {[fn |-> "in_size_range", feat |-> Feat("chr1", s, s + l, <<Tag(DEL, lumpy)>>)] :
        s \in {0, 100}, l \in Lengths}

EnsemblePool ==
    {Feat("chr1", 100, 200, <<Tag(DEL, lumpy), Tag(DEL, delly)>>),
     Feat("chr1", 300, 400, <<Tag(DEL, lumpy)>>),
     Feat("chr1", 150, 250, <<Tag(UKN, wham)>>),
     Feat("chr1", 1000, 4000, <<Tag(BND, lumpy)>>),
     Feat("chr1", 10000, 16000, <<Tag(DEL, lumpy)>>),
     Feat("chr1", 0, 1000000, <<Tag(DEL, delly)>>),
     Feat("chr1", 500, 600, <<Tag(BND, <<>>)>>),
     Feat("chr1", 200, 300, <<Tag(DUP, delly)>>),
     Feat("chr2", 100, 200, <<Tag(cnv_tag(<<1>>), cnvkit)>>),
     Feat("chr1", 150, 150, <<Tag(DEL, lumpy)>>)}

TruthPool ==
    {Feat("chr1", 120, 180, <<>>),
     Feat("chr1", 190, 320, <<>>),
     Feat("chr1", 200, 300, <<>>),
     Feat("chr1", 3900, 6000, <<>>),
     Feat("chr1", 15000, 21000, <<>>),
     Feat("chr2", 100, 200, <<>>)}

Beds(pool) == {b \in SUBSET pool : Cardinality(b) <= MaxFeats}

EvalCalls ==
    {[fn |-> "_evaluate_one", caller |-> c, svtype |-> t, size_range |-> EVENT_SIZES[i],
      ensemble |-> e, truth |-> tr, ploidy |-> 2] :
        c \in {sv_ensemble, lumpy}, t \in {DEL, DUP}, i \in 1..Len(EVENT_SIZES),
        e \in Beds(EnsemblePool), tr \in Beds(TruthPool)}

NoReturn == [exc |-> ""]

(***************************************************************************)
(* The functions called on their own.                                      *)
(***************************************************************************)
InitFn ==
    /\ \/ call \in CnvCalls
       \/ call \in MatcherCalls
       \/ call \in SizeCalls
       \/ call \in StatCalls
       \/ call \in EvalCalls
    /\ pc = "call"
    /\ ret = NoReturn
    /\ total_callers = {}
    /\ svi = 1 /\ szi = 1 /\ ci = 1
    /\ out_rows = <<>>
    /\ df_rows = <<>>

Returns(r) ==
    /\ ret' = r
    /\ pc' = IF r.exc = "" THEN "return" ELSE "raise"
    /\ UNCHANGED <<call, total_callers, svi, szi, ci, out_rows, df_rows>>

Call_cnv_to_event ==
    /\ pc = "call" /\ call.fn = "cnv_to_event"
    /\ Returns(cnv_to_event(call.name, call.ploidy))

Call_is_caller_svtype ==
    /\ pc = "call" /\ call.fn = "is_caller_svtype"
    /\ Returns(is_caller_svtype(call.feat, call.caller, call.svtype, call.ploidy))

\* in_size_range of one feature, for each size of EVENT_SIZES in turn
Call_in_size_range ==
    /\ pc = "call" /\ call.fn = "in_size_range"
    /\ Returns([exc |-> "",
                val |-> [i \in 1..Len(EVENT_SIZES) |-> in_size_range(call.feat, EVENT_SIZES[i])]])

Call_stat_str ==
    /\ pc = "call" /\ call.fn = "_stat_str"
    /\ Returns([exc |-> "", val |-> _stat_str(call.x, call.n)])

Call_evaluate_one ==
    /\ pc = "call" /\ call.fn = "_evaluate_one"
    /\ Returns(_evaluate_one(call.caller, call.svtype, call.size_range,
                             call.ensemble, call.truth, call.ploidy))

NextFn ==
    \/ Call_cnv_to_event
    \/ Call_is_caller_svtype
    \/ Call_in_size_range
    \/ Call_stat_str
    \/ Call_evaluate_one

SpecFn == InitFn /\ [][NextFn]_vars

(***************************************************************************)
(* _evaluate_multi.  truth_svtypes is the dict in insertion order, a       *)
(* sequence of [svtype, truth]; call_beds a function from caller names to  *)
(* BED files.  out_uptodate and df_uptodate are the two answers of         *)
(* utils.file_uptodate.                                                    *)
(***************************************************************************)
CallerSeqs ==
    {<<sv_ensemble, lumpy, wham>>, <<lumpy, sv_ensemble>>, <<wham, lumpy>>, <<>>}

LumpyBeds ==
    {{Feat("chr1", 100, 200, <<Tag(DEL, lumpy)>>), Feat("chr1", 300, 400, <<Tag(BND, lumpy)>>)},
     {Feat("chr1", 500, 600, <<Tag(BND, <<>>)>>)}}

WhamBeds == {{Feat("chr1", 150, 250, <<Tag(UKN, wham)>>)}}

CallBeds ==
    {<<>>}
        \cup {(lumpy :> l) : l \in LumpyBeds}
        \cup {(wham :> w) : w \in WhamBeds}
        \cup {(lumpy :> l) @@ (wham :> w) : l \in LumpyBeds, w \in WhamBeds}

MultiEnsemblePool ==
    {Feat("chr1", 100, 200, <<Tag(DEL, lumpy), Tag(DEL, wham)>>),
     Feat("chr1", 300, 400, <<Tag(BND, lumpy)>>),
     Feat("chr1", 150, 250, <<Tag(UKN, wham)>>),
     Feat("chr1", 1000, 4000, <<Tag(DUP, wham)>>),
     Feat("chr1", 500, 600, <<Tag(BND, <<>>)>>)}

DelTruths == {{Feat("chr1", 120, 180, <<>>), Feat("chr1", 190, 320, <<>>)}, {}}

DupTruths == {{Feat("chr1", 3900, 6000, <<>>)}}

Truth(svtype, truth) == [svtype |-> svtype, truth |-> truth]

TruthSvtypes ==
    {<<>>}
        \cup {<<Truth(DEL, d)>> : d \in DelTruths}
        \cup {<<Truth(DEL, d), Truth(DUP, u)>> : d \in DelTruths, u \in DupTruths}
        \cup {<<Truth(DUP, u), Truth(DEL, {})>> : u \in DupTruths}

Uptodates == {<<FALSE, FALSE>>, <<TRUE, FALSE>>, <<TRUE, TRUE>>}

Init ==
    /\ \E cs \in CallerSeqs, ts \in TruthSvtypes, e \in Beds(MultiEnsemblePool),
          cb \in CallBeds, u \in Uptodates :
            call = [fn |-> "_evaluate_multi", callers |-> cs, truth_svtypes |-> ts,
                    ensemble |-> e, call_beds |-> cb, ploidy |-> 2,
                    out_uptodate |-> u[1], df_uptodate |-> u[2]]
    /\ pc = "call"
    /\ ret = NoReturn
    /\ total_callers = {}
    /\ svi = 1 /\ szi = 1 /\ ci = 1
    /\ out_rows = <<>>
    /\ df_rows = <<>>

\* "%s-%s" % size
str_size(size) == py_str(size.minf) \o <<"-">> \o py_str(size.maxf)

metrics_reversed == <<"precision", "sensitivity">>

metrics == <<"sensitivity", "precision">>

is_active_all(caller, svtype) == TRUE

\* x in total_callers[svtype] or x == "sv-ensemble"
is_active(caller, svtype) ==
    caller \in callers_of(total_callers, svtype) \/ caller = sv_ensemble

InLoop ==
    /\ pc = "loop"
    /\ svi <= Len(call.truth_svtypes)
    /\ szi <= Len(EVENT_SIZES)
    /\ ci <= Len(call.callers)

\* both files are up to date: nothing is opened or written
UpToDate ==
    /\ pc = "call" /\ call.fn = "_evaluate_multi"
    /\ call.out_uptodate /\ call.df_uptodate
    /\ pc' = "return"
    /\ UNCHANGED <<call, ret, total_callers, svi, szi, ci, out_rows, df_rows>>

\* the files are opened, callers_by_event reads the ensemble, the headers are written
OpenFiles ==
    /\ pc = "call" /\ call.fn = "_evaluate_multi"
    /\ ~call.out_uptodate \/ ~call.df_uptodate
    /\ \E total \in {callers_by_event(call.ensemble, call.ploidy)} :
           IF total.exc # ""
           THEN /\ pc' = "raise"
                /\ ret' = [exc |-> total.exc]
                /\ UNCHANGED <<total_callers, out_rows, df_rows>>
           ELSE /\ pc' = "loop"
                /\ total_callers' = total.val
                /\ out_rows' = <<<<"svtype", "size", "caller", "sensitivity", "precision">>>>
                /\ df_rows' = <<<<"svtype", "size", "caller", "metric", "value", "label">>>>
                /\ UNCHANGED ret
    /\ UNCHANGED <<call, svi, szi, ci>>

\* the generator passes over a caller that is not active for the svtype
SkipCaller ==
    /\ InLoop
    /\ ~is_active(call.callers[ci], call.truth_svtypes[svi].svtype)
    /\ ci' = ci + 1
    /\ UNCHANGED <<call, pc, ret, total_callers, svi, szi, out_rows, df_rows>>

\* call_beds[caller] raises KeyError and the caller is not "sv-ensemble"
AssertCaller ==
    /\ InLoop
    /\ is_active(call.callers[ci], call.truth_svtypes[svi].svtype)
    /\ call.callers[ci] \notin DOMAIN call.call_beds
    /\ call.callers[ci] # sv_ensemble
    /\ pc' = "raise"
    /\ ret' = [exc |-> "AssertionError"]
    /\ UNCHANGED <<call, total_callers, svi, szi, ci, out_rows, df_rows>>

\* one pass of the innermost loop: _evaluate_one, one row of out_file, two of df_file
EvalCaller ==
    /\ InLoop
    /\ is_active(call.callers[ci], call.truth_svtypes[svi].svtype)
    /\ call.callers[ci] \in DOMAIN call.call_beds \/ call.callers[ci] = sv_ensemble
    /\ \E caller \in {call.callers[ci]}, svtype \in {call.truth_svtypes[svi].svtype},
          str \in {str_size(EVENT_SIZES[szi])} :
        \E call_bed \in {IF caller \in DOMAIN call.call_beds
                          THEN call.call_beds[caller] ELSE call.ensemble} :
        \E evalout \in {_evaluate_one(caller, svtype, EVENT_SIZES[szi], call_bed,
                                      call.truth_svtypes[svi].truth, call.ploidy)} :
           IF evalout.exc # ""
           THEN /\ pc' = "raise"
                /\ ret' = [exc |-> evalout.exc]
                /\ UNCHANGED <<ci, out_rows, df_rows>>
           ELSE /\ out_rows' = Append(out_rows,
                       <<svtype, str, caller,
                         evalout.sensitivity.label, evalout.precision.label>>)
                /\ df_rows' = df_rows \o
                       [m \in 1..Len(metrics) |->
                           <<svtype, str, caller, metrics[m],
                             evalout[metrics[m]].val, evalout[metrics[m]].label>>]
                /\ ci' = ci + 1
                /\ UNCHANGED <<pc, ret>>
    /\ UNCHANGED <<call, total_callers, svi, szi>>

\* the callers are exhausted: next size
NextSize ==
    /\ pc = "loop"
    /\ svi <= Len(call.truth_svtypes)
    /\ szi <= Len(EVENT_SIZES)
    /\ ci > Len(call.callers)
    /\ szi' = szi + 1
    /\ ci' = 1
    /\ UNCHANGED <<call, pc, ret, total_callers, svi, out_rows, df_rows>>

\* the sizes are exhausted: next item of truth_svtypes
NextSvtype ==
    /\ pc = "loop"
    /\ svi <= Len(call.truth_svtypes)
    /\ szi > Len(EVENT_SIZES)
    /\ svi' = svi + 1
    /\ szi' = 1
    /\ UNCHANGED <<call, pc, ret, total_callers, ci, out_rows, df_rows>>

\* truth_svtypes is exhausted: the files are closed and their names returned
Return ==
    /\ pc = "loop"
    /\ svi > Len(call.truth_svtypes)
    /\ pc' = "return"
    /\ UNCHANGED <<call, ret, total_callers, svi, szi, ci, out_rows, df_rows>>

Next ==
    \/ UpToDate
    \/ OpenFiles
    \/ SkipCaller
    \/ AssertCaller
    \/ EvalCaller
    \/ NextSize
    \/ NextSvtype
    \/ Return

Spec == Init /\ [][Next]_vars

(***************************************************************************)
(* Properties of the functions called on their own (SpecFn).               *)
(***************************************************************************)
Returned(fn) == call.fn = fn /\ pc = "return"

Ended(fn) == call.fn = fn /\ pc \in {"return", "raise"}

FeatLen(f) == f.end - f.start

\* C1: a hit for a caller other than "sv-ensemble" needs a sub-tag whose caller
\* component equals the requested caller name.
C1_CallerComponentDecides ==
    (Returned("is_caller_svtype") /\ ret.val /\ call.caller # sv_ensemble)
        => \E i \in 1..Len(call.tags) : call.tags[i].caller = call.caller

\* C2: the sensitivity returned by _evaluate_one is a fraction of the truth set:
\* its match count never exceeds ttotal, so the value never exceeds 100.
C2_SensitivityWithinTruth ==
    Returned("_evaluate_one")
        => /\ 0 <= ret.sensitivity.val.num
           /\ ret.sensitivity.val.num <= 100 * ret.sensitivity.val.den

SharesBase(e, t) ==
    /\ e.chrom = t.chrom
    /\ \E p \in {e.start, t.start} : e.start <= p /\ p < e.end /\ t.start <= p /\ p < t.end

\* C4: _evaluate_one counts a merged caller interval as matched exactly when it
\* shares a base with a merged truth interval, in every size bin: the overlap
\* fraction of the bin plays no part in match, sensitivity or precision.
C4_AnyOverlapMatches ==
    Returned("_evaluate_one")
        => LET E == efeats_of(call.caller, call.svtype, call.size_range,
                              call.ensemble, call.ploidy).val
               T == tfeats_of(call.size_range, call.truth)
               M == Cardinality({e \in E : \E t \in T : SharesBase(e, t)})
           IN  /\ ret.sensitivity = _stat_str(M, Cardinality(T))
               /\ ret.precision = _stat_str(M, Cardinality(E))

\* a match whose overlap (100 of 3000 bases) is below the fraction of its bin (0.5)
C4_Witness ==
    /\ Returned("_evaluate_one")
    /\ call.caller = lumpy /\ call.svtype = DEL /\ call.size_range = EVENT_SIZES[3]
    /\ call.ensemble = {Feat("chr1", 1000, 4000, <<Tag(BND, lumpy)>>)}
    /\ call.truth = {Feat("chr1", 3900, 6000, <<>>)}
    /\ ret.precision.val = [num |-> 100, den |-> 1]
    /\ ret.sensitivity.val = [num |-> 100, den |-> 1]

\* C6: a feature with a sub-tag that begins with BND, for which the caller
\* condition holds, is a match for every svtype, returned without error.
C6_BreakendAlwaysMatches ==
    (/\ Ended("is_caller_svtype")
     /\ \E i \in 1..Len(call.tags) :
            /\ startswith(subtag_str(call.tags[i]), BND)
            /\ (call.caller = sv_ensemble \/ endswith(subtag_str(call.tags[i]), call.caller)))
        => (ret.exc = "" /\ ret.val)

SeqRange(q) == {q[i] : i \in 1..Len(q)}

\* C7: cnv_to_event maps a cnv tag to DEL, DUP or the tag itself as the maximum of
\* its copy numbers is below, above or equal to the ploidy, and returns every tag
\* that does not start with cnv unchanged.
C7_CnvToEvent ==
    Ended("cnv_to_event")
        => IF call.copies # <<>>
           THEN LET m == Max(SeqRange(call.copies))
                IN  /\ ret.exc = ""
                    /\ m < call.ploidy => ret.val = DEL
                    /\ m > call.ploidy => ret.val = DUP
                    /\ m = call.ploidy => ret.val = call.name
           ELSE ~startswith(call.name, cnv) => (ret.exc = "" /\ ret.val = call.name)

\* "cnv1;3_cnvkit" at ploidy 2 is a DUP: the maximum 3 decides, not the 1
C7_Witness ==
    /\ Returned("cnv_to_event")
    /\ call.copies = <<1, 3>> /\ call.ploidy = 2
    /\ ret.val = DUP

OutOfRange(f) == FeatLen(f) < 1 \/ FeatLen(f) >= 1000000

\* C8: in_size_range accepts a feature of length L in exactly one bin of
\* EVENT_SIZES when 1 <= L < 1,000,000 and in none otherwise, and a feature out
\* of that range changes nothing _evaluate_one counts.
C8_BinsPartition ==
    /\ Returned("in_size_range")
        => Cardinality({i \in 1..Len(EVENT_SIZES) : ret.val[i]})
              = IF OutOfRange(call.feat) THEN 0 ELSE 1
    /\ Ended("_evaluate_one")
        => ret = _evaluate_one(call.caller, call.svtype, call.size_range,
                               {f \in call.ensemble : ~OutOfRange(f)},
                               {f \in call.truth : ~OutOfRange(f)}, call.ploidy)

\* a length on the bound shared by two bins is in the upper one only
C8_Witness ==
    /\ Returned("in_size_range")
    /\ FeatLen(call.feat) = EVENT_SIZES[2].minf
    /\ ret.val[2] /\ ~ret.val[1]

\* the parts of a label "P% (x / n)"
LabelParts(label) == split(label, " ")

LabelWellFormed(label, x, n) ==
    LET parts == LabelParts(label)
    IN  /\ Len(parts) = 4
        /\ endswith(parts[1], <<"%">>)
        /\ parts[2] = <<"(">> \o py_str(x)
        /\ parts[3] = <<"/">>
        /\ parts[4] = py_str(n) \o <<")">>
        /\ LET p == split(SubSeq(parts[1], 1, Len(parts[1]) - 1), ".")
           IN  /\ Len(p) = 2 /\ Len(p[2]) = 1
               /\ int_parses(p[1]) /\ int_parses(p[2])
               /\ LET tenths == 10 * py_int(p[1]) + py_int(p[2])
                      d == tenths * n - 1000 * x
                  IN  2 * d <= n /\ 0 - n <= 2 * d
        /\ x = 0 => startswith(label, <<"0", ".", "0", "%">>)

\* C9: _stat_str(x, n) gives the empty label and the value 0 exactly when n = 0
\* and the label "P% (x / n)" when n > 0; in _evaluate_one an empty truth set
\* empties the sensitivity label only, an empty call set the precision label.
C9_EmptyIsNoError ==
    /\ Returned("_stat_str")
        => /\ (ret.val.label = <<>> /\ ret.val.val.num = 0) <=> call.n = 0
           /\ call.n > 0 => LabelWellFormed(ret.val.label, call.x, call.n)
    /\ Returned("_evaluate_one")
        => LET sized(bed) == {f \in bed : in_size_range(f, call.size_range)}
               calls == {f \in sized(call.ensemble) :
                            is_caller_svtype(f, call.caller, call.svtype, call.ploidy).val}
           IN  /\ ret.sensitivity.label = <<>> <=> sized(call.truth) = {}
               /\ ret.precision.label = <<>> <=> calls = {}

\* no truth interval in the bin, one call: sensitivity "", precision "0.0% (0 / 1)"
C9_Witness ==
    /\ Returned("_evaluate_one")
    /\ call.truth = {}
    /\ ret.sensitivity.label = <<>>
    /\ ret.precision.label = <<"0", ".", "0", "%", " ", "(", "0", " ", "/", " ", "1", ")">>

(***************************************************************************)
(* Properties of _evaluate_multi (Spec).                                   *)
(***************************************************************************)
InMulti == call.fn = "_evaluate_multi"

Regenerated == ~call.out_uptodate \/ ~call.df_uptodate

Missing(caller) == caller # sv_ensemble /\ caller \notin DOMAIN call.call_beds

\* the caller has a call of the event type in the ensemble file
ActiveIn(caller, svtype) ==
    caller \in callers_of(callers_by_event(call.ensemble, call.ploidy).val, svtype)

\* C3 as stated: with a caller that is not "sv-ensemble" and not in call_beds, the
\* run never completes normally (here even with an event type to evaluate).
C3_MissingCallerAlwaysFatal ==
    (InMulti /\ Regenerated /\ pc = "return" /\ call.truth_svtypes # <<>>)
        => \A i \in 1..Len(call.callers) : ~Missing(call.callers[i])

\* C3 amended: the run fails on the assertion only at a caller that is missing from
\* call_beds and active for the svtype being evaluated, and it completes normally
\* only if every missing caller is active for no svtype of truth_svtypes.
C3_MissingCallerFatalWhenActive ==
    InMulti
        => /\ (pc = "raise" /\ ret.exc = "AssertionError")
                => /\ svi <= Len(call.truth_svtypes) /\ ci <= Len(call.callers)
                   /\ Missing(call.callers[ci])
                   /\ ActiveIn(call.callers[ci], call.truth_svtypes[svi].svtype)
           /\ (pc = "return" /\ Regenerated)
                => \A i \in 1..Len(call.callers), t \in 1..Len(call.truth_svtypes) :
                       Missing(call.callers[i])
                           => ~ActiveIn(call.callers[i], call.truth_svtypes[t].svtype)
           /\ pc = "raise" => ret.exc \in {"AssertionError", "ValueError"}

\* the assertion fails after rows of earlier callers have been written
C3_Witness ==
    /\ InMulti /\ pc = "raise" /\ ret.exc = "AssertionError"
    /\ Missing(call.callers[ci])
    /\ Len(out_rows) > 1

\* the (svtype, size, caller) positions in loop order, and those that get a row
AllKeys ==
    LET nS == Len(EVENT_SIZES)
        nC == Len(call.callers)
    IN  [k \in 1..(Len(call.truth_svtypes) * nS * nC) |->
            <<((k - 1) \div (nS * nC)) + 1, (((k - 1) \div nC) % nS) + 1, ((k - 1) % nC) + 1>>]

ExpectedKeys ==
    LET wanted(key) ==
            \/ call.callers[key[3]] = sv_ensemble
            \/ ActiveIn(call.callers[key[3]], call.truth_svtypes[key[1]].svtype)
    IN  SelectSeq(AllKeys, wanted)

KeyOf(key) ==
    <<call.truth_svtypes[key[1]].svtype, str_size(EVENT_SIZES[key[2]]), call.callers[key[3]]>>

RowKey(row) == <<row[1], row[2], row[3]>>

\* C5: after the headers, out_file holds one row for each event type of
\* truth_svtypes, size of EVENT_SIZES and caller that is "sv-ensemble" or active
\* for the event type, in loop order and no other; each is followed in df_file by
\* its sensitivity row and its precision row.  While the loop runs the rows
\* written are the first of these; on return they are all of them.
C5_RowsInLoopOrder ==
    (InMulti /\ out_rows # <<>>)
        => \E expected \in {ExpectedKeys} :
           /\ out_rows[1] = <<"svtype", "size", "caller", "sensitivity", "precision">>
           /\ df_rows[1] = <<"svtype", "size", "caller", "metric", "value", "label">>
           /\ Len(df_rows) - 1 = 2 * (Len(out_rows) - 1)
           /\ Len(out_rows) - 1 <= Len(expected)
           /\ pc = "return" => Len(out_rows) - 1 = Len(expected)
           /\ \A i \in 1..(Len(out_rows) - 1) :
                /\ RowKey(out_rows[i + 1]) = KeyOf(expected[i])
                /\ RowKey(df_rows[2 * i]) = KeyOf(expected[i])
                /\ RowKey(df_rows[2 * i + 1]) = KeyOf(expected[i])
                /\ df_rows[2 * i][4] = "sensitivity"
                /\ df_rows[2 * i + 1][4] = "precision"
                /\ df_rows[2 * i][6] = out_rows[i + 1][4]
                /\ df_rows[2 * i + 1][6] = out_rows[i + 1][5]

\* three callers and two event types, lumpy without a DUP call: 18 + 12 rows
C5_Witness ==
    /\ InMulti /\ pc = "return"
    /\ call.callers = <<sv_ensemble, lumpy, wham>>
    /\ Len(call.truth_svtypes) = 2
    /\ ~ActiveIn(lumpy, DUP)
    /\ Len(out_rows) = 31
    /\ Len(df_rows) = 61

\* C10: a caller of callers with an ensemble interval that is_caller_svtype accepts
\* for an event type of truth_svtypes has a row for that event type in every size
\* (here even with every caller in call_beds).
C10_FilterAgreesWithMatcher ==
    (/\ InMulti /\ pc = "return" /\ Regenerated
     /\ \A i \in 1..Len(call.callers) : ~Missing(call.callers[i]))
        => \A i \in 1..Len(call.callers), t \in 1..Len(call.truth_svtypes) :
              (\E f \in call.ensemble :
                    \E m \in {is_caller_svtype(f, call.callers[i],
                                               call.truth_svtypes[t].svtype, call.ploidy)} :
                        m.exc = "" /\ m.val)
                 => \A z \in 1..Len(EVENT_SIZES) :
                       \E r \in 2..Len(out_rows) :
                           RowKey(out_rows[r]) = KeyOf(<<t, z, i>>)

====
